---- MODULE Spec2Model ----
(***************************************************************************)
(* A model of backend/seeq_runner.py: the process-wide session, the six    *)
(* public operations, and the command-line dispatcher.  One process is     *)
(* modelled.  It is either run as a script (the dispatcher performs one    *)
(* operation and prints its envelope) or imported, in which case the       *)
(* public operations are called one after the other in the same process.   *)
(*                                                                         *)
(* Python values are encoded as follows.  None is the string "None", a     *)
(* float NaN the string "NaN", a pandas Timestamp one of the strings of    *)
(* TimestampObjects.  A DataFrame is a sequence of rows, a row a function  *)
(* from column names to cells.  The list of dicts that to_dict('records')  *)
(* builds is a tagged value [t |-> "list" | "dict" | "leaf", v |-> ...].   *)
(* The analytics client (spy.login, spy.search, spy.pull) is external: its *)
(* outcomes are chosen nondeterministically by the actions that call it.   *)
(***************************************************************************)
EXTENDS Integers, Sequences, FiniteSets, TLC

(* ------------------------------ bounds --------------------------------- *)

MaxNames == 2

MaxCalls == 2

MaxLen == 2

(* ------------------------------ values --------------------------------- *)

None == "None"

NaN == "NaN"

TsNaive == "Timestamp('2025-09-01 00:00:00')"

TsAware == "Timestamp('2025-09-01 00:00:00+0500')"

TimestampObjects == {TsNaive, TsAware}

\* pandas' NaT: it has isoformat, and like NaN it is not equal to itself.
NaT == "NaT"

Names == {"A", "B"}

SeqsUpTo(S, n) == UNION {[1..k -> S] : k \in 0..n}

\* Python truthiness of a str-or-None argument (`if url and access_key and password`).
Truthy(x) == x # None /\ x # ""

\* sensor_names as decoded from the JSON argument array: a list of names, or a
\* value that is not iterable (JSON null).
NotAList == [is_list |-> FALSE, items |-> <<>>]

SensorNameInputs ==
    {NotAList} \cup {[is_list |-> TRUE, items |-> s] : s \in SeqsUpTo(Names, MaxNames)}

Cred(u, k, p, i) ==
    [url |-> u, access_key |-> k, password |-> p, auth_provider |-> "Seeq",
     ignore_ssl_errors |-> i]

\* The credential arguments a call is made with: complete sets, and sets with the
\* url, the access key or the password missing or empty.  ignore_ssl_errors is
\* declared `any`: a bool, a string or something else.
CredInputs ==
    {Cred("https://a", "key1", "pw1", [type |-> "bool", val |-> "True"]),
     Cred("https://b", "key2", "pw2", [type |-> "str", val |-> "no"]),
     Cred("", "key1", "pw1", [type |-> "str", val |-> "TRUE"]),
     Cred("https://a", None, "pw1", [type |-> "int", val |-> "1"]),
     Cred("https://a", "key1", "", [type |-> "bool", val |-> "True"]),
     Cred(None, None, None, [type |-> "bool", val |-> "False"])}

HasCredentials(c) == Truthy(c.url) /\ Truthy(c.access_key) /\ Truthy(c.password)

(* ----------------------- results and defaults -------------------------- *)

InitialAuthState ==
    [is_authenticated |-> FALSE, url |-> None, access_key |-> None,
     password |-> None, auth_provider |-> "Seeq", ignore_ssl_errors |-> FALSE]

NoResult == [kind |-> "none"]

\* A function has not been applied yet.
Pending == [t |-> "pending"]

Returned(env) == [kind |-> "return", env |-> env]

Raised(exc) == [kind |-> "raise", exc |-> exc]

NoDt == [kind |-> "None", tz |-> None, via |-> "none", value |-> 0]

NoCred == Cred(None, None, None, [type |-> "bool", val |-> "False"])

FunctionNames ==
    {"authenticate_seeq", "check_auth_status", "search_sensors_only",
     "search_and_pull_sensors", "test_connection", "get_server_info"}

(* ------------------------ authenticate_seeq ---------------------------- *)

\* str.lower() on the strings ignore_ssl_errors is given as.
Lower(s) == IF s = "TRUE" THEN "true" ELSE s

\* A faulty variant: ignore_ssl_errors taken by its truthiness, bool(x).
ToBool_Truthiness(i) ==
    IF i.type = "bool" THEN i.val = "True" ELSE i.val \notin {"", "0"}

\* Lines 62-66: ignore_ssl_errors converted to a proper boolean.
ToBool(i) ==
    IF i.type = "str" THEN Lower(i.val) \in {"true", "1", "yes", "on"}
    ELSE IF i.type = "bool" THEN i.val = "True"
    ELSE FALSE

\* What spy.login can do: leave an identity, return with none, or raise (and then
\* leave spy.user as it was, or cleared).
LoginOutcomes == {"user", "nouser", "raise", "raise_logout"}

UserOf(c) == "user:" \o c.access_key

LoginFailedEnvelope ==
    [success |-> FALSE, message |-> "Authentication failed: <login error>",
     error |-> "<login error>", traceback |-> "<traceback>"]

NoUserEnvelope ==
    [success |-> FALSE, message |-> "Authentication failed - no user returned",
     error |-> "No user returned from SPy"]

\* A faulty variant: a login that fails signs the process out, auth_state going
\* back to its initial value.
authenticate_seeq_ClearsOnFailure(c, s, out) ==
    LET opts == [server |-> c.url, compatibility |-> 66]
        ssl == ToBool(c.ignore_ssl_errors)
        login == [call |-> "login", url |-> c.url, access_key |-> c.access_key,
                  password |-> c.password, ignore_ssl_errors |-> ssl, outcome |-> out]
    IN  IF out = "user"
        THEN [auth_state |->
                 [is_authenticated |-> TRUE, url |-> c.url,
                  access_key |-> c.access_key, password |-> c.password,
                  auth_provider |-> c.auth_provider, ignore_ssl_errors |-> ssl],
              spy_user |-> UserOf(c), spy_options |-> opts, call |-> login,
              ret |-> [success |-> TRUE,
                       message |-> "Successfully authenticated as <user>",
                       user |-> UserOf(c), server_url |-> c.url]]
        ELSE [auth_state |-> InitialAuthState, spy_user |-> None,
              spy_options |-> opts, call |-> login,
              ret |-> IF out = "nouser" THEN NoUserEnvelope ELSE LoginFailedEnvelope]

\* authenticate_seeq(url, access_key, password, auth_provider, ignore_ssl_errors)
\* entered with session s = [auth_state, spy_user, spy_options], spy.login ending
\* as `out`: the session afterwards, the login call made and the envelope returned.
authenticate_seeq(c, s, out) ==
    LET opts == [server |-> c.url, compatibility |-> 66]
        ssl == ToBool(c.ignore_ssl_errors)
        login == [call |-> "login", url |-> c.url, access_key |-> c.access_key,
                  password |-> c.password, ignore_ssl_errors |-> ssl, outcome |-> out]
    IN  CASE out = "user" ->
                [auth_state |->
                    [is_authenticated |-> TRUE, url |-> c.url,
                     access_key |-> c.access_key, password |-> c.password,
                     auth_provider |-> c.auth_provider, ignore_ssl_errors |-> ssl],
                 spy_user |-> UserOf(c), spy_options |-> opts, call |-> login,
                 ret |-> [success |-> TRUE,
                          message |-> "Successfully authenticated as <user>",
                          user |-> UserOf(c), server_url |-> c.url]]
          [] out = "nouser" ->
                [auth_state |-> s.auth_state, spy_user |-> None, spy_options |-> opts,
                 call |-> login, ret |-> NoUserEnvelope]
          [] out = "raise" ->
                [auth_state |-> s.auth_state, spy_user |-> s.spy_user,
                 spy_options |-> opts, call |-> login, ret |-> LoginFailedEnvelope]
          [] out = "raise_logout" ->
                [auth_state |-> s.auth_state, spy_user |-> None, spy_options |-> opts,
                 call |-> login, ret |-> LoginFailedEnvelope]

(* --------------------------- data frames ------------------------------- *)

\* pandas' isna() on a cell.
IsNa(x) == x \in {None, NaN}

\* What spy.search can do for one name: raise, return an empty frame, or return
\* one or two matching rows (a property of a row may be text, unset or a Timestamp).
\* The Name of a matching signal need not be the text asked for (the search matches
\* names that contain it, whatever the case): "other" is a match named "S".
SearchOutcomes == {"raise", "empty", "one", "oneTs", "two", "other"}

FoundRow(name, k, description) ==
    [Name |-> name, ID |-> "id:" \o name \o ":" \o k, Type |-> "StoredSignal",
     Description |-> description]

\* The one signal named "S", which any request may match.
OtherRow ==
    [Name |-> "S", ID |-> "id:S:1", Type |-> "StoredSignal", Description |-> "text"]

\* The frame spy.search({'Name': name, 'Type': 'StoredSignal'}) returns.
SearchFrame(name, out) ==
    CASE out = "empty" -> <<>>
      [] out = "other" -> <<OtherRow>>
      [] out = "one" -> <<FoundRow(name, "1", "text")>>
      [] out = "oneTs" -> <<FoundRow(name, "1", TsNaive)>>
      [] out = "two" -> <<FoundRow(name, "1", "text"), FoundRow(name, "2", "text")>>

Placeholder(name, status) ==
    <<[Name |-> name, ID |-> None, Type |-> "StoredSignal", Original_Name |-> name,
       Status |-> status]>>

\* result['Original_Name'] = sensor_name
WithOriginalName(frame, name) ==
    [i \in DOMAIN frame |->
        [c \in DOMAIN frame[i] \cup {"Original_Name"} |->
            IF c = "Original_Name" THEN name ELSE frame[i][c]]]

\* A faulty variant: a search that raises leaves no placeholder behind.
SearchIteration_NoPlaceholder(name, out) ==
    IF out = "raise" THEN <<>>
    ELSE IF SearchFrame(name, out) # <<>>
         THEN WithOriginalName(SearchFrame(name, out), name)
         ELSE Placeholder(name, "Not Found")

\* One iteration of the search loop: the frame appended to search_results.
SearchIteration(name, out) ==
    IF out = "raise" THEN Placeholder(name, "Search Error: <search error>")
    ELSE IF SearchFrame(name, out) # <<>>
         THEN WithOriginalName(SearchFrame(name, out), name)
         ELSE Placeholder(name, "Not Found")

RECURSIVE Flatten(_)
Flatten(frames) ==
    IF frames = <<>> THEN <<>> ELSE Head(frames) \o Flatten(Tail(frames))

\* pd.concat(frames, ignore_index=True): the rows in order, over the union of the
\* columns, a cell a frame does not have filled with NaN.
Concat(frames) ==
    LET rows == Flatten(frames)
        cols == UNION {DOMAIN rows[i] : i \in DOMAIN rows}
    IN  [i \in DOMAIN rows |->
            [c \in cols |-> IF c \in DOMAIN rows[i] THEN rows[i][c] ELSE NaN]]

\* A faulty variant: every record counts as one that has an ID.
NotNaId_Always(row) == TRUE

\* combined_results[combined_results['ID'].notna()]
NotNaId(row) == ~IsNa(row.ID)

\* A faulty variant: the records without an ID are not filtered out.
ValidSensors_Unfiltered(frame) == frame

ValidSensors(frame) == SelectSeq(frame, NotNaId)

\* frame.drop_duplicates(subset=['Original_Name'], keep='first')
RECURSIVE DropDuplicates(_)
DropDuplicates(frame) ==
    IF frame = <<>> THEN <<>>
    ELSE LET init == DropDuplicates(SubSeq(frame, 1, Len(frame) - 1))
             last == frame[Len(frame)]
         IN  IF \E i \in 1..(Len(frame) - 1) :
                    frame[i].Original_Name = last.Original_Name
             THEN init
             ELSE Append(init, last)

(* ------------------------ Python object trees -------------------------- *)

Leaf(x) == [t |-> "leaf", v |-> x]

RaisedValue == [t |-> "raise", v |-> "AttributeError"]

\* frame.to_dict('records'): a list of dicts, one per row.
ToDictRecords(frame) ==
    [t |-> "list",
     v |-> [i \in DOMAIN frame |->
              [t |-> "dict", v |-> [c \in DOMAIN frame[i] |-> Leaf(frame[i][c])]]]]

\* Objects that have isoformat but no tz attribute (datetime.datetime, datetime.date).
DatetimeObjects == {"datetime.datetime(2025, 9, 1, 0, 0)", "datetime.date(2025, 9, 1)"}

HasIsoformat(x) == x \in TimestampObjects \cup DatetimeObjects \cup {NaT}

\* A faulty variant: the test is made with ==, and NaN is never equal to NaN.
NotEqualToItself_Never(x) == FALSE

\* obj != obj
NotEqualToItself(x) == x \in {NaN, NaT}

\* obj.tz_convert('UTC').strftime(...) for an aware Timestamp, obj.strftime(...) for
\* a naive one.
Strftime(x) ==
    IF x = TsAware THEN "2025-08-31 19:00:00" ELSE "2025-09-01 00:00:00"

RECURSIVE clean_for_json(_)
clean_for_json(obj) ==
    IF obj.t = "dict"
    THEN LET kids == [k \in DOMAIN obj.v |-> clean_for_json(obj.v[k])]
         IN  IF \E k \in DOMAIN kids : kids[k].t = "raise" THEN RaisedValue
             ELSE [t |-> "dict", v |-> kids]
    ELSE IF obj.t = "list"
    THEN LET kids == [i \in DOMAIN obj.v |-> clean_for_json(obj.v[i])]
         IN  IF \E i \in DOMAIN kids : kids[i].t = "raise" THEN RaisedValue
             ELSE [t |-> "list", v |-> kids]
    ELSE IF NotEqualToItself(obj.v) THEN Leaf(None)
    ELSE IF HasIsoformat(obj.v)
    THEN IF obj.v \in DatetimeObjects THEN RaisedValue ELSE Leaf(Strftime(obj.v))
    ELSE obj

RECURSIVE PyLeaves(_)
PyLeaves(obj) ==
    IF obj.t = "leaf" THEN {obj.v}
    ELSE UNION {PyLeaves(obj.v[k]) : k \in DOMAIN obj.v}

\* str(obj), what json.dumps(..., default=str) writes for an object it cannot encode.
Str(x) ==
    CASE x = TsNaive -> "2025-09-01 00:00:00"
      [] x = TsAware -> "2025-09-01 00:00:00+05:00"
      [] x = "datetime.datetime(2025, 9, 1, 0, 0)" -> "2025-09-01 00:00:00"
      [] x = "datetime.date(2025, 9, 1)" -> "2025-09-01"
      [] OTHER -> x

RECURSIVE DefaultStr(_)
DefaultStr(obj) ==
    IF obj.t = "leaf" THEN Leaf(Str(obj.v))
    ELSE [t |-> obj.t, v |-> [k \in DOMAIN obj.v |-> DefaultStr(obj.v[k])]]

(* ------------------------- datetime parsing ---------------------------- *)

\* A raw date argument together with what the parsing libraries make of it:
\* falsy (None or ""), the outcome of pd.to_datetime(text) ("fail", or a naive or an
\* aware Timestamp), the explicit layouts of excel_formats (numbered 1..9 in list
\* order) that parse it, each with the day it reads, whether float(text) succeeds,
\* the outcome of
\* dateutil.parser.parse(text), the calendar day the text denotes (days since
\* 1970-01-01) and the number it denotes.
DateInput(text, falsy, flexible, layouts, serial, dateutil, calendar, number) ==
    [text |-> text, falsy |-> falsy, flexible |-> flexible, layouts |-> layouts,
     serial |-> serial, dateutil |-> dateutil, calendar |-> calendar,
     number |-> number]

DateNone == DateInput(None, TRUE, "fail", <<>>, FALSE, "fail", 0, 0)

DateEmpty == DateInput("", TRUE, "fail", <<>>, FALSE, "fail", 0, 0)

DateIso ==
    DateInput("2025-09-01", FALSE, "naive", (4 :> 20332), FALSE, "naive", 20332, 0)

DateIsoZ ==
    DateInput("2025-09-01T00:00:00+05:00", FALSE, "aware", <<>>, FALSE, "aware", 20332,
              0)

DateGarbage == DateInput("not a date", FALSE, "fail", <<>>, FALSE, "fail", 0, 0)

\* A number of days as text: no calendar reading, float() succeeds.
DateSerial == DateInput("45292", FALSE, "fail", <<>>, TRUE, "fail", 0, 45292)

Min(S) == CHOOSE x \in S : \A y \in S : x <= y

\* pd.Timestamp('1899-12-30') in days since 1970-01-01.
ExcelEpoch == -25569

Timestamp(tz, via, value) ==
    [kind |-> "Timestamp", tz |-> tz, via |-> via, value |-> value]

\* A faulty variant: the serial-number step is tried before the explicit layouts.
parse_excel_friendly_datetime_SerialFirst(raw) ==
    IF raw.falsy THEN NoDt
    ELSE IF raw.flexible # "fail"
    THEN Timestamp(IF raw.flexible = "aware" THEN "+05:00" ELSE None, "flexible",
                   raw.calendar)
    ELSE IF raw.serial
    THEN Timestamp(None, "serial", ExcelEpoch + raw.number)
    ELSE IF DOMAIN raw.layouts # {}
    THEN Timestamp(None, "layout", raw.layouts[Min(DOMAIN raw.layouts)])
    ELSE IF raw.dateutil # "fail"
    THEN [kind |-> "datetime", tz |-> IF raw.dateutil = "aware" THEN "+05:00" ELSE None,
          via |-> "dateutil", value |-> raw.calendar]
    ELSE NoDt

\* parse_excel_friendly_datetime(dt_str): the value returned (NoDt for None).
parse_excel_friendly_datetime(raw) ==
    IF raw.falsy THEN NoDt
    ELSE IF raw.flexible # "fail"
    THEN Timestamp(IF raw.flexible = "aware" THEN "+05:00" ELSE None, "flexible",
                   raw.calendar)
    ELSE IF DOMAIN raw.layouts # {}
    THEN Timestamp(None, "layout", raw.layouts[Min(DOMAIN raw.layouts)])
    ELSE IF raw.serial
    THEN Timestamp(None, "serial", ExcelEpoch + raw.number)
    ELSE IF raw.dateutil # "fail"
    THEN [kind |-> "datetime", tz |-> IF raw.dateutil = "aware" THEN "+05:00" ELSE None,
          via |-> "dateutil", value |-> raw.calendar]
    ELSE NoDt

\* x.tz_localize('UTC') raises for a datetime.datetime (no such method) and for a
\* Timestamp that is already timezone-aware.
CanLocalize(x) == x.kind = "Timestamp" /\ x.tz = None

WithTz(x, tz) == [x EXCEPT !.tz = tz]

MissingDatetimeEnvelope ==
    [success |-> FALSE, message |-> "Start and end datetime are required",
     error |-> "Missing datetime values"]

DatetimeFailedEnvelope ==
    [success |-> FALSE, message |-> "Invalid datetime format: <error>",
     error |-> "Datetime parsing failed",
     supported_formats |-> "<the list of supported formats>"]

\* A faulty variant: a bound that parsed to None is not rejected.
ParseTimeRange_NoneAccepted(t) ==
    [ok |-> TRUE, raised |-> FALSE,
     start_dt |-> parse_excel_friendly_datetime(t.start_datetime),
     end_dt |-> parse_excel_friendly_datetime(t.end_datetime)]

\* Lines 342-393 of search_and_pull_sensors: both bounds parsed, then the timezone
\* applied.  `raised` tells whether the except branch (which binds the local name
\* traceback) was taken.
ParseTimeRange(t) ==
    LET s == parse_excel_friendly_datetime(t.start_datetime)
        e == parse_excel_friendly_datetime(t.end_datetime)
        failed == [ok |-> FALSE, raised |-> TRUE, env |-> DatetimeFailedEnvelope,
                   start_dt |-> s, end_dt |-> e]
    IN  IF s.kind = "None" \/ e.kind = "None"
        THEN [ok |-> FALSE, raised |-> FALSE, env |-> MissingDatetimeEnvelope,
              start_dt |-> s, end_dt |-> e]
        ELSE IF Truthy(t.timezone)
        THEN IF CanLocalize(s) /\ CanLocalize(e)
             THEN [ok |-> TRUE, raised |-> FALSE,
                   start_dt |-> WithTz(s, t.timezone), end_dt |-> WithTz(e, t.timezone)]
             ELSE failed
        ELSE IF s.kind # "Timestamp" THEN failed
        ELSE IF s.tz = None
        THEN IF CanLocalize(e)
             THEN [ok |-> TRUE, raised |-> FALSE,
                   start_dt |-> WithTz(s, "UTC"), end_dt |-> WithTz(e, "UTC")]
             ELSE failed
        ELSE IF e.kind # "Timestamp" THEN failed
        ELSE [ok |-> TRUE, raised |-> FALSE, start_dt |-> s, end_dt |-> e]

\* The date arguments and zones the operations are called with.
DateInputs == {DateNone, DateEmpty, DateIso, DateIsoZ, DateGarbage}

TimezoneInputs == {None, "US/Central"}

NoTimeArgs == [start_datetime |-> DateNone, end_datetime |-> DateNone, timezone |-> None]

(* ------------------------- process state ------------------------------- *)

VARIABLES
    pc,               \* position of the process
    caller,           \* "main": run as a script; "direct": imported, called directly
    fn,               \* the operation in progress (or the last one)
    args_json,        \* how sys.argv[2] decodes: "valid", "malformed", "wrong arity"
    sensor_names,     \* argument of the search operations
    cred,             \* url, access_key, password, auth_provider, ignore_ssl_errors
    auth_state,       \* the module-level dict auth_state
    spy_user,         \* spy.user
    spy_options,      \* spy.options.server and spy.options.compatibility
    time_args,        \* start_datetime, end_datetime, timezone as first read
    start_dt,         \* local of search_and_pull_sensors
    end_dt,           \* local of search_and_pull_sensors
    search_results,   \* local: the list of frames the search loop builds
    combined_results, \* local: pd.concat(search_results)
    valid_sensors,    \* local: the frame handed to spy.pull
    traceback_bound,  \* is the local name `traceback` of search_and_pull_sensors bound
    entry_authenticated, \* was the session authenticated when the operation was entered
    result,           \* what the operation returned or raised
    calls,            \* the calls made to the analytics client by this invocation
    stdout,           \* the lines written to the process's standard output
    output_capture,   \* the lines written to sys.stdout while it is redirected
    exit_code,        \* the process's exit status, None while it runs
    ncalls,           \* number of direct calls made so far
    obj,              \* the value clean_for_json is applied to
    cleaned,          \* clean_for_json(obj), once computed
    recleaned,        \* clean_for_json(cleaned), once computed
    dt_str,           \* the argument parse_excel_friendly_datetime is applied to
    parsed            \* parse_excel_friendly_datetime(dt_str), once computed

vars ==
    <<pc, caller, fn, args_json, sensor_names, cred, auth_state, spy_user,
      spy_options, time_args, start_dt, end_dt, search_results, combined_results,
      valid_sensors, traceback_bound, entry_authenticated, result, calls, stdout,
      output_capture, exit_code, ncalls, obj, cleaned, recleaned, dt_str, parsed>>

\* The variables of the functions studied on their own.
library == <<obj, cleaned, recleaned, dt_str, parsed>>

locals ==
    <<time_args, start_dt, end_dt, search_results, combined_results, valid_sensors,
      traceback_bound>>

session == <<auth_state, spy_user, spy_options>>

channels == <<stdout, output_capture, exit_code>>

\* No function is being studied on its own.
NoLibraryCall ==
    /\ obj = Leaf(None)
    /\ cleaned = Pending
    /\ recleaned = Pending
    /\ dt_str = DateNone
    /\ parsed = Pending

\* The process before the module is imported.
ProcessInit ==
    /\ pc = "start"
    /\ caller \in {"main", "direct"}
    /\ fn = None
    /\ args_json = None
    /\ sensor_names = NotAList
    /\ cred = NoCred
    /\ auth_state = InitialAuthState
    /\ spy_user = None
    /\ spy_options = [server |-> None, compatibility |-> 0]
    /\ time_args = NoTimeArgs
    /\ start_dt = NoDt
    /\ end_dt = NoDt
    /\ search_results = <<>>
    /\ combined_results = <<>>
    /\ valid_sensors = <<>>
    /\ traceback_bound = FALSE
    /\ entry_authenticated = FALSE
    /\ result = NoResult
    /\ calls = <<>>
    /\ stdout = <<>>
    /\ output_capture = <<>>
    /\ exit_code = None
    /\ ncalls = 0

Init == NoLibraryCall /\ ProcessInit

\* The session is authenticated: the test check_auth_status makes.
Authenticated == spy_user # None /\ auth_state.is_authenticated

CurrentSession ==
    [auth_state |-> auth_state, spy_user |-> spy_user, spy_options |-> spy_options]

(* ------------- check_auth_status, test_connection, get_server_info ------ *)

check_auth_status ==
    IF Authenticated
    THEN [success |-> TRUE, isAuthenticated |-> TRUE, user |-> spy_user,
          message |-> "Authenticated as <user>"]
    ELSE [success |-> TRUE, isAuthenticated |-> FALSE, message |-> "Not authenticated"]

test_connection ==
    [success |-> TRUE,
     message |-> "SPy module is available and ready for authentication",
     status_code |-> "OK"]

get_server_info(url) ==
    [success |-> TRUE, message |-> "Server info retrieved successfully",
     server_info |-> [status |-> "Available", url |-> url]]

(* ------------------- envelopes of the search operations ---------------- *)

\* A faulty variant: the authentication envelope is not passed on.
AuthenticationRequiredEnvelope_NoDetails(auth_result) ==
    [success |-> FALSE, message |-> "Authentication failed: <error>",
     error |-> "Authentication required"]

AuthenticationRequiredEnvelope(auth_result) ==
    [success |-> FALSE, message |-> "Authentication failed: <error>",
     error |-> "Authentication required", auth_details |-> auth_result]

AuthenticationStateEnvelope ==
    [success |-> FALSE,
     message |-> "Authentication appeared successful but spy.user is still None",
     error |-> "Authentication state issue"]

\* A faulty variant: the wording of the older module seeq_auth.py.
MissingCredentialsEnvelope_AuthRequired ==
    [success |-> FALSE, message |-> "Not authenticated to Seeq. Please login first.",
     error |-> "Authentication required"]

MissingCredentialsEnvelope ==
    [success |-> FALSE, message |-> "Authentication credentials are required",
     error |-> "Missing credentials"]

NoSearchResultsEnvelope ==
    [success |-> FALSE, message |-> "Search failed for all sensors",
     error |-> "No search results"]

\* A faulty variant: an empty batch reported as a success.
SearchReturnedNoResultsEnvelope_Success ==
    [success |-> TRUE, message |-> "No sensors found or search failed",
     search_results |-> [t |-> "list", v |-> <<>>]]

SearchReturnedNoResultsEnvelope ==
    [success |-> FALSE, message |-> "No sensors found or search failed",
     error |-> "Search returned no results"]

\* A faulty variant: the failure envelope built with success true.
UnexpectedErrorEnvelope_Success ==
    [success |-> TRUE, message |-> "<operation> failed: <error>",
     error |-> "<error>", traceback |-> "<traceback>"]

\* The outer `except Exception` of the search operations.
UnexpectedErrorEnvelope ==
    [success |-> FALSE, message |-> "<operation> failed: <error>",
     error |-> "<error>", traceback |-> "<traceback>"]

\* A faulty variant: only the records of the names that were found are returned.
SearchCompletedEnvelope_FoundOnly(names, combined) ==
    [success |-> TRUE, message |-> "Search completed for <n> sensors",
     search_results |-> ToDictRecords(ValidSensors(combined)),
     sensor_count |-> Len(names)]

SearchCompletedEnvelope(names, combined) ==
    [success |-> TRUE, message |-> "Search completed for <n> sensors",
     search_results |-> ToDictRecords(combined), sensor_count |-> Len(names)]

AllSensorsFailedEnvelope(combined) ==
    [success |-> FALSE, message |-> "No valid sensors found to pull data from",
     error |-> "All sensors failed search", search_results |-> ToDictRecords(combined)]

\* A faulty variant: the search records are not returned with the failure.
PullFailedEnvelope_NoRecords(combined) ==
    [success |-> FALSE, message |-> "Failed to pull data: <error>",
     error |-> "<error>"]

PullFailedEnvelope(combined) ==
    [success |-> FALSE, message |-> "Failed to pull data: <error>",
     error |-> "<error>", search_results |-> ToDictRecords(combined)]

(* ------------------------------ the pull -------------------------------- *)

\* What spy.pull can do: raise, or return a frame indexed by timestamp with one
\* column per sensor Name, its cells numbers or (for gaps) NaN.
PullOutcomes == {"raise", "frame", "gaps"}

\* data_df.reset_index(): the rows of the pulled frame, the index as a column.
PullFrame(sensors, out) ==
    LET cols == {sensors[i].Name : i \in DOMAIN sensors}
    IN  <<[c \in cols \cup {"index"} |->
             IF c = "index" THEN TsAware ELSE IF out = "gaps" THEN NaN ELSE "1.5"]>>

\* A faulty variant: only the pulled data are cleaned, the search records are
\* returned as to_dict('records') gives them.
PullResult_RawSearchRecords(sensors, combined, targs, data) ==
    [success |-> TRUE,
     message |-> "Successfully retrieved data for <n> sensors",
     search_results |-> ToDictRecords(combined),
     data |-> clean_for_json(ToDictRecords(data)),
     data_columns |-> {sensors[i].Name : i \in DOMAIN sensors},
     data_index |-> [i \in DOMAIN data |-> Str(data[i].index)],
     sensor_count |-> Len(sensors),
     time_range |-> <<targs.start_datetime.text, targs.end_datetime.text>>]

\* Lines 502-551: the records cleaned and the success envelope built; an exception
\* on the way is caught by the except branch of lines 553-564.
PullResult(sensors, combined, targs, data) ==
    LET cleaned_data == clean_for_json(ToDictRecords(data))
        cleaned_search_results == clean_for_json(ToDictRecords(combined))
    IN  IF cleaned_data.t = "raise" \/ cleaned_search_results.t = "raise"
        THEN PullFailedEnvelope(combined)
        ELSE [success |-> TRUE,
              message |-> "Successfully retrieved data for <n> sensors",
              search_results |-> cleaned_search_results,
              data |-> cleaned_data,
              data_columns |-> {sensors[i].Name : i \in DOMAIN sensors},
              data_index |-> [i \in DOMAIN data |-> Str(data[i].index)],
              sensor_count |-> Len(sensors),
              time_range |-> <<targs.start_datetime.text, targs.end_datetime.text>>]

(* --------------------------- JSON encoding ------------------------------ *)

\* The leaves of the object trees an envelope carries; its other fields are
\* strings, booleans and integers.
EnvelopeLeaves(env) ==
    UNION {PyLeaves(env[k]) : k \in DOMAIN env \cap {"search_results", "data"}}

\* json.dumps raises TypeError on an object it has no encoding for.
Encodable(x) == x \notin TimestampObjects \cup DatetimeObjects

\* json.dumps writes a float NaN as the token NaN, which is not JSON.
JsonLine(env, via) ==
    [valid_json |-> NaN \notin EnvelopeLeaves(env), via |-> via, doc |-> env]

TextLine(text) == [valid_json |-> FALSE, via |-> "print", doc |-> [text |-> text]]

WithDefaultStr(env) ==
    [k \in DOMAIN env |->
        IF k \in {"search_results", "data"} THEN DefaultStr(env[k]) ELSE env[k]]

\* Lines 656-679: json.dumps(result), else json.dumps(result, default=str).
EncodeResult(env) ==
    IF \A x \in EnvelopeLeaves(env) : Encodable(x)
    THEN JsonLine(env, "json.dumps")
    ELSE JsonLine(WithDefaultStr(env), "default=str")

UsageEnvelope ==
    [success |-> FALSE,
     error |-> "Usage: python seeq_runner.py <function_name> <json_args>"]

\* A faulty variant: the name asked for is left out of the message.
UnknownFunctionEnvelope_NoName(name) ==
    [success |-> FALSE, error |-> "Unknown function"]

UnknownFunctionEnvelope(name) ==
    [success |-> FALSE, error |-> "Unknown function: " \o name]

ExecutionErrorEnvelope ==
    [success |-> FALSE, error |-> "Execution error: <error>",
     traceback |-> "<traceback>"]

(* ------------------------------ actions -------------------------------- *)

\* Lines 18-22: the import of the analytics client; on ImportError a plain message
\* is printed and the process exits with status 1.
ImportGuard ==
    /\ pc = "start"
    /\ \/ /\ pc' = IF caller = "main" THEN "main" ELSE "idle"
          /\ UNCHANGED channels
       \/ /\ pc' = "exited"
          /\ stdout' = Append(stdout,
                TextLine("SPy module not found. Please install it using: pip install seeq"))
          /\ exit_code' = "1"
          /\ UNCHANGED output_capture
    /\ UNCHANGED <<library, caller, fn, args_json, entry_authenticated, sensor_names, cred,
                   session, locals, result, calls, ncalls>>

\* Lines 617-622: too few command-line arguments.
MainUsage ==
    /\ pc = "main"
    /\ pc' = "exited"
    /\ stdout' = Append(stdout, JsonLine(UsageEnvelope, "json.dumps"))
    /\ exit_code' = "1"
    /\ UNCHANGED <<library, caller, fn, args_json, entry_authenticated, sensor_names, cred,
                   session, locals, result, calls, output_capture, ncalls>>

\* Lines 630 and 681-696: json.loads(args_json) raises, or the decoded arguments do
\* not fit the function's parameters (TypeError at the call).
MainBadArguments ==
    /\ pc = "main"
    /\ \E name \in FunctionNames \cup {"no_such_function"}, bad \in {"json", "count"} :
          /\ bad = "count" =>
                name \in FunctionNames \ {"check_auth_status"}
          /\ fn' = name
          /\ args_json' = IF bad = "json" THEN "malformed" ELSE "wrong arity"
    /\ pc' = "exited"
    /\ stdout' = Append(stdout, JsonLine(ExecutionErrorEnvelope, "json.dumps"))
    /\ exit_code' = "1"
    /\ UNCHANGED <<library, caller, entry_authenticated, sensor_names, cred, session,
                   locals, result, calls, output_capture, ncalls>>

\* Lines 644-648: the function name is none of the six.
MainUnknownFunction ==
    /\ pc = "main"
    /\ fn' = "no_such_function"
    /\ args_json' = "valid"
    /\ result' = Returned(UnknownFunctionEnvelope("no_such_function"))
    /\ pc' = "returned"
    /\ UNCHANGED <<library, caller, entry_authenticated, sensor_names, cred, session,
                   locals, calls, channels, ncalls>>

\* An operation can be entered: by the dispatcher, once, with arguments that decoded
\* and fit; or by a direct call in a process that imported the module.
Ready == pc = "main" \/ (pc = "idle" /\ ncalls < MaxCalls)

\* The locals of search_and_pull_sensors and search_sensors_only at entry; the
\* locals of an earlier call are gone when another operation is entered.
FreshLocals ==
    /\ time_args' = NoTimeArgs
    /\ start_dt' = NoDt
    /\ end_dt' = NoDt
    /\ search_results' = <<>>
    /\ combined_results' = <<>>
    /\ valid_sensors' = <<>>
    /\ traceback_bound' = FALSE

\* Operation `name` is entered.
Enter(name) ==
    /\ fn' = name
    /\ args_json' = IF caller = "main" THEN "valid" ELSE None
    /\ entry_authenticated' = Authenticated
    /\ ncalls' = ncalls + 1
    /\ FreshLocals

\* The operation ends with `res` (an envelope returned or an exception raised).
Finish(res) ==
    /\ result' = res
    /\ pc' = "returned"

CallAuthenticate ==
    /\ Ready
    /\ \E c \in CredInputs, out \in LoginOutcomes :
          LET r == authenticate_seeq(c, CurrentSession, out)
          IN  /\ cred' = c
              /\ auth_state' = r.auth_state
              /\ spy_user' = r.spy_user
              /\ spy_options' = r.spy_options
              /\ calls' = <<r.call>>
              /\ Finish(Returned(r.ret))
    /\ Enter("authenticate_seeq")
    /\ UNCHANGED <<library, caller, sensor_names, channels>>

CallCheckAuthStatus ==
    /\ Ready
    /\ Enter("check_auth_status")
    /\ calls' = <<>>
    /\ Finish(Returned(check_auth_status))
    /\ UNCHANGED <<library, caller, sensor_names, cred, session, channels>>

CallTestConnection ==
    /\ Ready
    /\ Enter("test_connection")
    /\ calls' = <<>>
    /\ Finish(Returned(test_connection))
    /\ UNCHANGED <<library, caller, sensor_names, cred, session, channels>>

CallGetServerInfo ==
    /\ Ready
    /\ Enter("get_server_info")
    /\ calls' = <<>>
    /\ \E url \in {"https://a", "https://b"} : Finish(Returned(get_server_info(url)))
    /\ UNCHANGED <<library, caller, sensor_names, cred, session, channels>>

\* search_sensors_only or search_and_pull_sensors is entered: its locals are fresh.
BeginSearch ==
    /\ Ready
    /\ \E f \in {"search_sensors_only", "search_and_pull_sensors"},
          names \in SensorNameInputs, c \in CredInputs :
          /\ Enter(f)
          /\ sensor_names' = names
          /\ cred' = c
    /\ pc' = "authenticate"
    /\ result' = NoResult
    /\ calls' = <<>>
    /\ UNCHANGED <<library, caller, session, channels>>

\* A faulty variant, the gate of the older module seeq_auth.py: the login is
\* attempted only when the session holds no user.
Authenticate_SessionGate ==
    /\ pc = "authenticate"
    /\ IF spy_user # None
       THEN /\ pc' = IF fn = "search_and_pull_sensors" THEN "parse" ELSE "search"
            /\ UNCHANGED <<session, calls, result>>
       ELSE IF HasCredentials(cred)
       THEN \E out \in LoginOutcomes :
               LET r == authenticate_seeq(cred, CurrentSession, out)
               IN  /\ auth_state' = r.auth_state
                   /\ spy_user' = r.spy_user
                   /\ spy_options' = r.spy_options
                   /\ calls' = Append(calls, r.call)
                   /\ IF ~r.ret.success
                      THEN Finish(Returned(AuthenticationRequiredEnvelope(r.ret)))
                      ELSE /\ pc' = IF fn = "search_and_pull_sensors"
                                    THEN "parse" ELSE "search"
                           /\ UNCHANGED result
       ELSE /\ Finish(Returned(MissingCredentialsEnvelope))
            /\ UNCHANGED <<session, calls>>
    /\ UNCHANGED <<library, caller, fn, args_json, entry_authenticated, sensor_names, cred,
                   locals, channels, ncalls>>

\* Lines 147-170 and 246-271: the operation authenticates whenever it is given
\* credentials, and gives up when it is not or when the login fails.
Authenticate ==
    /\ pc = "authenticate"
    /\ IF HasCredentials(cred)
       THEN \E out \in LoginOutcomes :
               LET r == authenticate_seeq(cred, CurrentSession, out)
               IN  /\ auth_state' = r.auth_state
                   /\ spy_user' = r.spy_user
                   /\ spy_options' = r.spy_options
                   /\ calls' = Append(calls, r.call)
                   /\ IF ~r.ret.success
                      THEN Finish(Returned(AuthenticationRequiredEnvelope(r.ret)))
                      ELSE IF r.spy_user = None
                      THEN Finish(Returned(AuthenticationStateEnvelope))
                      ELSE /\ pc' = IF fn = "search_and_pull_sensors"
                                    THEN "parse" ELSE "search"
                           /\ UNCHANGED result
       ELSE /\ Finish(Returned(MissingCredentialsEnvelope))
            /\ UNCHANGED <<session, calls>>
    /\ UNCHANGED <<library, caller, fn, args_json, entry_authenticated, sensor_names, cred,
                   locals, channels, ncalls>>

\* Lines 342-409 of search_and_pull_sensors: the time range is parsed, and on
\* success spy.options.server is set again.
ParseDates ==
    /\ pc = "parse"
    /\ \E s \in DateInputs, e \in DateInputs, z \in TimezoneInputs :
          LET t == [start_datetime |-> s, end_datetime |-> e, timezone |-> z]
              r == ParseTimeRange(t)
          IN  /\ time_args' = t
              /\ start_dt' = r.start_dt
              /\ end_dt' = r.end_dt
              /\ traceback_bound' = r.raised
              /\ IF r.ok
                 THEN /\ spy_options' = [spy_options EXCEPT !.server = cred.url]
                      /\ pc' = "search"
                      /\ UNCHANGED result
                 ELSE /\ Finish(Returned(r.env))
                      /\ UNCHANGED spy_options
    /\ UNCHANGED <<library, caller, fn, args_json, entry_authenticated, sensor_names, cred,
                   auth_state, spy_user, search_results, combined_results,
                   valid_sensors, calls, channels, ncalls>>

\* The outer `except Exception` handler.  In search_and_pull_sensors the name
\* traceback is a local of the function (it is imported at lines 381 and 557), so
\* traceback.format_exc() at line 568 reads a local that is bound only if one of
\* those imports ran.
OuterExcept ==
    IF fn = "search_and_pull_sensors" /\ ~traceback_bound
    THEN Raised("UnboundLocalError")
    ELSE Returned(UnexpectedErrorEnvelope)

\* Lines 174-206 and 413-445: one iteration of `for sensor_name in sensor_names`,
\* or the TypeError the for statement raises when sensor_names is not iterable.
SearchOne ==
    /\ pc = "search"
    /\ IF sensor_names.is_list
       THEN /\ Len(search_results) < Len(sensor_names.items)
            /\ LET name == sensor_names.items[Len(search_results) + 1]
               IN  \E out \in SearchOutcomes :
                      /\ search_results' =
                             Append(search_results, SearchIteration(name, out))
                      /\ calls' = Append(calls,
                         [call |-> "search", Name |-> name, Type |-> "StoredSignal",
                          outcome |-> out])
            /\ UNCHANGED <<pc, result>>
       ELSE /\ Finish(OuterExcept)
            /\ UNCHANGED <<search_results, calls>>
    /\ UNCHANGED <<library, caller, fn, args_json, entry_authenticated, sensor_names, cred,
                   session, time_args, start_dt, end_dt,
                   combined_results, valid_sensors, traceback_bound, channels, ncalls>>

\* A line written by print() without file=: captured while the dispatcher redirects
\* sys.stdout, on the process's standard output otherwise.
PrintLine(line) ==
    IF caller = "main"
    THEN /\ output_capture' = Append(output_capture, line)
         /\ UNCHANGED <<stdout, exit_code>>
    ELSE /\ stdout' = Append(stdout, line)
         /\ UNCHANGED <<output_capture, exit_code>>

\* Lines 208-222 of search_sensors_only: the frames combined and returned.
CombineSearch ==
    /\ pc = "search"
    /\ fn = "search_sensors_only"
    /\ sensor_names.is_list
    /\ Len(search_results) = Len(sensor_names.items)
    /\ IF search_results # <<>>
       THEN /\ combined_results' = Concat(search_results)
            /\ Finish(Returned(SearchCompletedEnvelope(sensor_names.items,
                                                       Concat(search_results))))
       ELSE /\ Finish(Returned(NoSearchResultsEnvelope))
            /\ UNCHANGED combined_results
    /\ UNCHANGED <<library, caller, fn, args_json, entry_authenticated, sensor_names, cred,
                   session, time_args, start_dt, end_dt,
                   search_results, valid_sensors, traceback_bound, calls, channels,
                   ncalls>>

\* Lines 447-475 of search_and_pull_sensors: the frames combined, the found sensors
\* kept and deduplicated by the name they were requested under.
CombinePull ==
    /\ pc = "search"
    /\ fn = "search_and_pull_sensors"
    /\ sensor_names.is_list
    /\ Len(search_results) = Len(sensor_names.items)
    /\ IF search_results = <<>>
       THEN /\ Finish(Returned(SearchReturnedNoResultsEnvelope))
            /\ UNCHANGED <<combined_results, valid_sensors, channels>>
       ELSE LET combined == Concat(search_results)
                valid == ValidSensors(combined)
                kept == DropDuplicates(valid)
            IN  /\ combined_results' = combined
                /\ IF valid = <<>>
                   THEN /\ Finish(Returned(AllSensorsFailedEnvelope(combined)))
                        /\ UNCHANGED <<valid_sensors, channels>>
                   ELSE /\ valid_sensors' = kept
                        /\ pc' = "pull"
                        /\ UNCHANGED result
                        /\ IF Len(valid) > Len(kept)
                           THEN PrintLine(TextLine("Removed <n> duplicate sensor names"))
                           ELSE UNCHANGED channels
    /\ UNCHANGED <<library, caller, fn, args_json, entry_authenticated, sensor_names, cred,
                   session, time_args, start_dt, end_dt,
                   search_results, traceback_bound, calls, ncalls>>

\* Lines 477-564: the one bulk pull, then the cleaning of the records.
Pull ==
    /\ pc = "pull"
    /\ \E out \in PullOutcomes :
          /\ calls' = Append(calls,
                [call |-> "pull", items |-> valid_sensors, start |-> start_dt,
                 end |-> end_dt, header |-> "Name", outcome |-> out])
          /\ IF out = "raise"
             THEN /\ Finish(Returned(PullFailedEnvelope(combined_results)))
                  /\ traceback_bound' = TRUE
             ELSE LET env == PullResult(valid_sensors, combined_results, time_args,
                                        PullFrame(valid_sensors, out))
                  IN  /\ Finish(Returned(env))
                      /\ traceback_bound' = ~env.success
    /\ UNCHANGED <<library, caller, fn, args_json, entry_authenticated, sensor_names, cred,
                   session, time_args, start_dt, end_dt,
                   search_results, combined_results, valid_sensors, channels, ncalls>>

\* Lines 650-696: the dispatcher prints the envelope the operation returned, or the
\* execution-error envelope when the operation raised.
Emit ==
    /\ pc = "returned"
    /\ caller = "main"
    /\ pc' = "exited"
    /\ IF result.kind = "return"
       THEN /\ stdout' = Append(stdout, EncodeResult(result.env))
            /\ exit_code' = "0"
       ELSE /\ stdout' = Append(stdout, JsonLine(ExecutionErrorEnvelope, "json.dumps"))
            /\ exit_code' = "1"
    /\ UNCHANGED <<library, caller, fn, args_json, entry_authenticated, sensor_names, cred,
                   session, locals, result, calls, output_capture, ncalls>>

\* In a process that imported the module the caller takes the result and goes on;
\* the locals of the call are gone.
Continue ==
    /\ pc = "returned"
    /\ caller = "direct"
    /\ pc' = "idle"
    /\ result' = NoResult
    /\ calls' = <<>>
    /\ FreshLocals
    /\ entry_authenticated' = FALSE
    /\ UNCHANGED <<library, caller, fn, args_json, sensor_names, cred, session,
                   channels, ncalls>>

Next ==
    \/ ImportGuard
    \/ MainUsage
    \/ MainBadArguments
    \/ MainUnknownFunction
    \/ CallAuthenticate
    \/ CallCheckAuthStatus
    \/ CallTestConnection
    \/ CallGetServerInfo
    \/ BeginSearch
    \/ Authenticate
    \/ ParseDates
    \/ SearchOne
    \/ CombineSearch
    \/ CombinePull
    \/ Pull
    \/ Emit
    \/ Continue

Spec == Init /\ [][Next]_vars

TypeOK ==
    /\ pc \in {"start", "main", "idle", "authenticate", "parse", "search", "pull",
               "returned", "exited"}
    /\ ncalls \in 0..MaxCalls

(* ---------------------- clean_for_json on its own ----------------------- *)

\* The leaves clean_for_json is given: text, numbers and booleans (all passed
\* through), None, NaN, NaT, pandas Timestamps, and datetime objects.
LeafValues ==
    {"text", "1.5", "7", "True", None, NaN, NaT} \cup TimestampObjects
        \cup DatetimeObjects

SanitizerLeaves == {Leaf(x) : x \in LeafValues}

ListOf(S) == {[t |-> "list", v |-> q] : q \in SeqsUpTo(S, MaxLen)}

DictOf(S) ==
    {[t |-> "dict", v |-> f] : f \in UNION {[K -> S] : K \in SUBSET {"a", "b"}}}

OneKeyDicts(S) == {[t |-> "dict", v |-> [a |-> x]] : x \in S}

\* Leaves, lists of leaves and of records, dicts of leaves and of lists.
SanitizerInputs ==
    SanitizerLeaves \cup ListOf(SanitizerLeaves \cup OneKeyDicts(SanitizerLeaves))
        \cup DictOf(SanitizerLeaves) \cup OneKeyDicts(ListOf(SanitizerLeaves))

SanitizerInit ==
    /\ ProcessInit
    /\ caller = "direct"
    /\ obj \in SanitizerInputs
    /\ cleaned = Pending
    /\ recleaned = Pending
    /\ dt_str = DateNone
    /\ parsed = Pending

process == <<pc, caller, fn, args_json, sensor_names, cred, session, locals,
             entry_authenticated, result, calls, channels, ncalls>>

\* cleaned = clean_for_json(obj)
Sanitize ==
    /\ cleaned = Pending
    /\ cleaned' = clean_for_json(obj)
    /\ UNCHANGED <<process, obj, recleaned, dt_str, parsed>>

\* recleaned = clean_for_json(cleaned), when the first application returned.
SanitizeAgain ==
    /\ cleaned # Pending
    /\ cleaned.t # "raise"
    /\ recleaned = Pending
    /\ recleaned' = clean_for_json(cleaned)
    /\ UNCHANGED <<process, obj, cleaned, dt_str, parsed>>

SanitizerNext ==
    \/ Sanitize
    \/ SanitizeAgain

SanitizerSpec == SanitizerInit /\ [][SanitizerNext]_vars

(* --------------- parse_excel_friendly_datetime on its own --------------- *)

\* What the nine explicit layouts make of a text: none parses it, one does, or two
\* do and read different days (month first, layout 1; day first, layout 8).
LayoutOutcomes == {<<>>, (4 :> 20332), (1 :> 20098 @@ 8 :> 20332), (8 :> 20332)}

\* The arguments of the normalizer: the ones above, and a text for every
\* combination of outcomes of the four parsing steps.
NormalizerInputs ==
    DateInputs \cup {DateSerial} \cup
    {DateInput("<text>", FALSE, f, l, n, d, 20332, 45292) :
        f \in {"fail", "naive", "aware"}, l \in LayoutOutcomes, n \in BOOLEAN,
        d \in {"fail", "naive", "aware"}}

NormalizerInit ==
    /\ ProcessInit
    /\ caller = "direct"
    /\ obj = Leaf(None)
    /\ cleaned = Pending
    /\ recleaned = Pending
    /\ dt_str \in NormalizerInputs
    /\ parsed = Pending

\* parsed = parse_excel_friendly_datetime(dt_str)
Normalize ==
    /\ parsed = Pending
    /\ parsed' = parse_excel_friendly_datetime(dt_str)
    /\ UNCHANGED <<process, obj, cleaned, recleaned, dt_str>>

NormalizerNext == Normalize

NormalizerSpec == NormalizerInit /\ [][NormalizerNext]_vars

(* ------------------------- vocabulary of the claims --------------------- *)

SearchOperations == {"search_sensors_only", "search_and_pull_sensors"}

\* An operation was entered and has ended (returned or raised), and its result
\* and call log are still in view.
Ended == pc \in {"returned", "exited"} /\ result.kind \in {"return", "raise"}

IsLogin(c) == c.call = "login"

IsSearch(c) == c.call = "search"

IsPull(c) == c.call = "pull"

LoginCalls == SelectSeq(calls, IsLogin)

SearchCalls == SelectSeq(calls, IsSearch)

PullCalls == SelectSeq(calls, IsPull)

\* url, access key and secret are all supplied and none is empty.
FullCredentials ==
    /\ cred.url \notin {"None", ""}
    /\ cred.access_key \notin {"None", ""}
    /\ cred.password \notin {"None", ""}

\* 'success' is present, and 'error' and 'traceback' only beside success false.
WellFormedEnvelope(env) ==
    /\ "success" \in DOMAIN env
    /\ env.success \in BOOLEAN
    /\ (DOMAIN env \cap {"error", "traceback"} # {}) => env.success = FALSE

\* The placeholder record of a name whose search raised or found nothing.
PlaceholderRow(name, outcome) ==
    [Name |-> name, ID |-> "None", Type |-> "StoredSignal", Original_Name |-> name,
     Status |-> IF outcome = "raise" THEN "Search Error: <search error>"
                ELSE "Not Found"]

(* -------------------------------- C1 ------------------------------------ *)

\* C1: every envelope an operation returns, the authentication envelope nested in
\* it, and every envelope the dispatcher prints (usage and unknown function
\* included) has the key 'success', and has 'error' or 'traceback' only when
\* success is false.
C1_EnvelopeWellFormed ==
    /\ result.kind = "return" =>
          /\ WellFormedEnvelope(result.env)
          /\ "auth_details" \in DOMAIN result.env =>
                WellFormedEnvelope(result.env.auth_details)
    /\ \A i \in DOMAIN stdout :
          stdout[i].via # "print" => WellFormedEnvelope(stdout[i].doc)

\* C1's case: a search operation has returned through its outer exception handler,
\* with a traceback in the envelope.
C1_Witness ==
    /\ pc = "returned"
    /\ fn = "search_sensors_only"
    /\ result.kind = "return"
    /\ "traceback" \in DOMAIN result.env

(* -------------------------------- C2 ------------------------------------ *)

\* C2: no fault escapes: a search operation that has ended has returned an
\* envelope, not raised, whatever the external calls, the date parsing and the
\* arguments did; and when the dispatcher was given arguments it could not decode
\* or pass, the line it printed is a success:false envelope.
C2_NoFaultEscapes ==
    /\ (fn \in SearchOperations /\ Ended) => result.kind = "return"
    /\ (pc = "exited" /\ args_json \in {"malformed", "wrong arity"}) =>
          /\ Len(stdout) = 1
          /\ stdout[1].doc.success = FALSE

\* C2's case: search_and_pull_sensors has ended by raising.
C2_Escaped ==
    /\ pc = "returned"
    /\ fn = "search_and_pull_sensors"
    /\ result = [kind |-> "raise", exc |-> "UnboundLocalError"]
    /\ LoginCalls # <<>>

(* -------------------------------- C3 ------------------------------------ *)

\* C3: when the runner process has exited, exactly one line has been written to
\* its standard output and that line is valid JSON.
C3_OneJsonLine ==
    (caller = "main" /\ pc = "exited") =>
        /\ Len(stdout) = 1
        /\ stdout[1].valid_json

\* C3's case: the process has exited with status 0 after printing the envelope of
\* an operation, and the line is not valid JSON.
C3_InvalidLine ==
    /\ caller = "main"
    /\ pc = "exited"
    /\ exit_code = "0"
    /\ Len(stdout) = 1
    /\ ~stdout[1].valid_json

(* -------------------------------- C4 ------------------------------------ *)

\* C4 as amended: when the dispatcher is given a function name that is none of
\* the six, no login, search or pull is made and the session stays as it was at
\* process start; and when the argument string decodes, the result, and the one
\* line printed, is {success:false, error:"Unknown function: <name>"}.
C4_UnknownFunction ==
    (caller = "main" /\ fn = "no_such_function" /\ pc \in {"returned", "exited"}) =>
        /\ calls = <<>>
        /\ spy_user = "None"
        /\ auth_state =
              [is_authenticated |-> FALSE, url |-> "None", access_key |-> "None",
               password |-> "None", auth_provider |-> "Seeq",
               ignore_ssl_errors |-> FALSE]
        /\ spy_options = [server |-> "None", compatibility |-> 0]
        /\ args_json = "valid" =>
              /\ result =
                    [kind |-> "return",
                     env |-> [success |-> FALSE,
                              error |-> "Unknown function: no_such_function"]]
              /\ pc = "exited" =>
                    /\ Len(stdout) = 1
                    /\ stdout[1].doc = result.env
                    /\ stdout[1].valid_json

\* C4's case: the dispatcher has printed its line for an unknown function name.
C4_Witness ==
    /\ caller = "main"
    /\ fn = "no_such_function"
    /\ args_json = "valid"
    /\ pc = "exited"

\* C4 as stated: whenever the function name is none of the six, the line printed
\* is the unknown-function envelope.
C4_Original ==
    (caller = "main" /\ fn = "no_such_function" /\ pc = "exited") =>
        stdout[Len(stdout)].doc =
            [success |-> FALSE, error |-> "Unknown function: no_such_function"]

(* -------------------------------- C5 ------------------------------------ *)

\* C5 as amended: a search operation called with the url, the access key or the
\* secret missing or empty returns {success:false, error:"Missing credentials"}
\* and makes no login, search or pull call.
C5_MissingCredentials ==
    (fn \in SearchOperations /\ ~FullCredentials /\ Ended) =>
        /\ result =
              [kind |-> "return",
               env |-> [success |-> FALSE,
                        message |-> "Authentication credentials are required",
                        error |-> "Missing credentials"]]
        /\ calls = <<>>

\* C5's case: search_and_pull_sensors has returned after a call without access key.
C5_Witness ==
    /\ fn = "search_and_pull_sensors"
    /\ cred.access_key = "None"
    /\ cred.url = "https://a"
    /\ pc = "returned"

\* C5 as stated: the error of that envelope is "Authentication required".
C5_Original ==
    (fn \in SearchOperations /\ ~FullCredentials /\ Ended) =>
        /\ result.kind = "return"
        /\ result.env.success = FALSE
        /\ result.env.error = "Authentication required"
        /\ calls = <<>>

(* -------------------------------- C6 ------------------------------------ *)

\* C6: when the login a search operation makes raises or ends with no identity,
\* the operation returns {success:false, error:"Authentication required",
\* auth_details: the envelope authenticate_seeq returned}, and makes no search and
\* no pull call.
C6_LoginFailed ==
    (fn \in SearchOperations /\ LoginCalls # <<>>
        /\ LoginCalls[1].outcome \in {"nouser", "raise", "raise_logout"}) =>
        /\ Ended
        /\ result =
              [kind |-> "return",
               env |-> [success |-> FALSE,
                        message |-> "Authentication failed: <error>",
                        error |-> "Authentication required",
                        auth_details |->
                            IF LoginCalls[1].outcome = "nouser"
                            THEN [success |-> FALSE,
                                  message |-> "Authentication failed - no user returned",
                                  error |-> "No user returned from SPy"]
                            ELSE [success |-> FALSE,
                                  message |-> "Authentication failed: <login error>",
                                  error |-> "<login error>",
                                  traceback |-> "<traceback>"]]]
        /\ Len(calls) = 1

\* C6's case: search_and_pull_sensors has returned after a login that raised.
C6_Witness ==
    /\ fn = "search_and_pull_sensors"
    /\ pc = "returned"
    /\ LoginCalls # <<>>
    /\ LoginCalls[1].outcome = "raise"

(* -------------------------------- C7 ------------------------------------ *)

\* C7 as amended: a search operation issues the login call exactly when url,
\* access key and secret are all supplied, whatever the session was at entry: once
\* past its authentication gate it has made one login call, first, if the
\* credentials are complete and none otherwise; entered with an authenticated
\* session but incomplete credentials it fails without searching.
C7_LoginIffCredentials ==
    (fn \in SearchOperations /\ (Ended \/ pc \in {"parse", "search", "pull"})) =>
        /\ Len(LoginCalls) = IF FullCredentials THEN 1 ELSE 0
        /\ FullCredentials => calls[1].call = "login"
        /\ (entry_authenticated /\ ~FullCredentials) =>
              /\ Ended
              /\ result.kind = "return"
              /\ result.env.success = FALSE
              /\ calls = <<>>

\* C7's case: an operation entered with an authenticated session has logged in
\* again and is searching.
C7_Witness ==
    /\ fn \in SearchOperations
    /\ entry_authenticated
    /\ pc = "search"
    /\ LoginCalls # <<>>

\* C7 as stated: the login is issued when the session is not authenticated at
\* entry, and an operation entered with an authenticated session searches without
\* a new login.
C7_Original ==
    (fn \in SearchOperations /\ pc = "search") =>
        IF entry_authenticated THEN LoginCalls = <<>> ELSE Len(LoginCalls) = 1

(* -------------------------------- C8 ------------------------------------ *)

\* C8: in the search step over a list of n names, the search calls made so far are
\* for the first names of the list, in order, each of Type 'StoredSignal'; each has
\* contributed one frame, which for a search that raised or came back empty is the
\* one placeholder record of that name; once a search has been made the operation
\* stays in the search step until all n have been made, and it leaves the step
\* with exactly n.
C8_SearchStep ==
    (fn \in SearchOperations /\ sensor_names.is_list
        /\ (Ended \/ pc \in {"search", "pull"})) =>
        LET n == Len(sensor_names.items)
            made == SearchCalls
        IN  /\ Len(made) <= n
            /\ Len(search_results) = Len(made)
            /\ \A k \in DOMAIN made :
                  /\ made[k].Name = sensor_names.items[k]
                  /\ made[k].Type = "StoredSignal"
                  /\ made[k].outcome \in {"raise", "empty"} =>
                        search_results[k] =
                            <<PlaceholderRow(sensor_names.items[k], made[k].outcome)>>
            /\ (Len(made) >= 1 /\ Len(made) < n) => pc = "search"
            /\ (pc = "pull" \/ PullCalls # <<>>) => Len(made) = n
            /\ (Ended /\ result.kind = "return"
                  /\ "search_results" \in DOMAIN result.env) => Len(made) = n

\* C8's case: of two names the search for the first raised, the search for the
\* second was still made and found a signal.
C8_Witness ==
    /\ fn = "search_and_pull_sensors"
    /\ pc = "pull"
    /\ Len(SearchCalls) = 2
    /\ SearchCalls[1].outcome = "raise"
    /\ SearchCalls[2].outcome = "one"

(* -------------------------------- C9 ------------------------------------ *)

\* C9 as amended: a search operation given an empty list of names returns a
\* success:false envelope and makes no search and no pull call; it makes the login
\* call exactly when the credentials are complete; and when that login succeeds
\* the error is "No search results" (search_sensors_only) or, the time range
\* accepted, "Search returned no results" (search_and_pull_sensors).
C9_EmptyList ==
    (fn \in SearchOperations /\ sensor_names.is_list /\ sensor_names.items = <<>>
        /\ Ended) =>
        /\ result.kind = "return"
        /\ result.env.success = FALSE
        /\ SearchCalls = <<>>
        /\ PullCalls = <<>>
        /\ Len(calls) = IF FullCredentials THEN 1 ELSE 0
        /\ (calls # <<>> /\ calls[1].outcome = "user") =>
              IF fn = "search_sensors_only"
              THEN result.env.error = "No search results"
              ELSE result.env.error \in
                      {"Search returned no results", "Missing datetime values",
                       "Datetime parsing failed"}
        /\ (calls # <<>> /\ calls[1].outcome = "user"
              /\ fn = "search_and_pull_sensors" /\ ParseTimeRange(time_args).ok) =>
              result.env.error = "Search returned no results"

\* C9's case: search_and_pull_sensors, given no names, has logged in and returned
\* its empty-batch failure.
C9_Witness ==
    /\ fn = "search_and_pull_sensors"
    /\ sensor_names.is_list
    /\ sensor_names.items = <<>>
    /\ pc = "returned"
    /\ Len(calls) = 1
    /\ result.env.error = "Search returned no results"

\* C9 as stated: no remote call at all is made for an empty list.
C9_Original ==
    (fn \in SearchOperations /\ sensor_names.is_list /\ sensor_names.items = <<>>
        /\ Ended) =>
        /\ result.kind = "return"
        /\ result.env.success = FALSE
        /\ calls = <<>>

(* -------------------------------- C10 ----------------------------------- *)

\* C10: when search_and_pull_sensors has combined the search records and every one
\* of them has a null ID, it returns {success:false, error:"All sensors failed
\* search"} carrying all n records in request order, and makes no pull call.
C10_NoValidSensors ==
    (fn = "search_and_pull_sensors" /\ combined_results # <<>>
        /\ \A i \in DOMAIN combined_results :
              combined_results[i].ID \in {"None", "NaN"}) =>
        LET made == SearchCalls
        IN  /\ Ended
            /\ PullCalls = <<>>
            /\ Len(made) = Len(sensor_names.items)
            /\ result =
                  [kind |-> "return",
                   env |-> [success |-> FALSE,
                            message |-> "No valid sensors found to pull data from",
                            error |-> "All sensors failed search",
                            search_results |->
                               [t |-> "list",
                                v |-> [k \in DOMAIN made |->
                                   [t |-> "dict",
                                    v |-> [c \in {"Name", "ID", "Type",
                                                  "Original_Name", "Status"} |->
                                       [t |-> "leaf",
                                        v |-> PlaceholderRow(made[k].Name,
                                                             made[k].outcome)[c]]]]]]]]

\* C10's case: two names were searched, one search raised and one found nothing,
\* and the operation has returned.
C10_Witness ==
    /\ fn = "search_and_pull_sensors"
    /\ pc = "returned"
    /\ Len(combined_results) = 2
    /\ SearchCalls[1].outcome = "raise"
    /\ SearchCalls[2].outcome = "empty"

(* -------------------------------- C11 ----------------------------------- *)

\* The list of dicts to_dict('records') makes of the combined search records.
CombinedRecords ==
    [t |-> "list",
     v |-> [i \in DOMAIN combined_results |->
              [t |-> "dict",
               v |-> [c \in DOMAIN combined_results[i] |->
                        [t |-> "leaf", v |-> combined_results[i][c]]]]]]

\* C11 as amended: search_and_pull_sensors issues at most one pull call, as its
\* last remote call, and exactly one when it has ended after combining search
\* records of which at least one has an ID; if that pull raises, the envelope
\* returned is {success:false, message:"Failed to pull data: <text>", error: the
\* text of the exception} and carries the combined search records.
C11_OnePull ==
    fn = "search_and_pull_sensors" =>
        /\ Len(PullCalls) <= 1
        /\ PullCalls # <<>> => calls[Len(calls)].call = "pull"
        /\ (Ended /\ \E i \in DOMAIN combined_results :
                         combined_results[i].ID \notin {"None", "NaN"}) =>
              Len(PullCalls) = 1
        /\ (PullCalls # <<>> /\ PullCalls[1].outcome = "raise") =>
              /\ Ended
              /\ result =
                    [kind |-> "return",
                     env |-> [success |-> FALSE,
                              message |-> "Failed to pull data: <error>",
                              error |-> "<error>",
                              search_results |-> CombinedRecords]]

\* C11's case: the pull raised after two searches, one of which found nothing.
C11_Witness ==
    /\ fn = "search_and_pull_sensors"
    /\ pc = "returned"
    /\ PullCalls # <<>>
    /\ PullCalls[1].outcome = "raise"
    /\ Len(combined_results) = 2
    /\ combined_results[2].ID = "None"

\* C11 as stated: the error of the envelope returned when the pull raises is
\* "data pull failed".
C11_Original ==
    (fn = "search_and_pull_sensors" /\ Ended /\ PullCalls # <<>>
        /\ PullCalls[1].outcome = "raise") =>
        /\ result.kind = "return"
        /\ result.env.success = FALSE
        /\ result.env.error = "data pull failed"
        /\ "search_results" \in DOMAIN result.env

(* -------------------------------- C12 ----------------------------------- *)

\* The errors with which search_and_pull_sensors rejects a time range.
DateErrors == {"Missing datetime values", "Datetime parsing failed"}

\* C12 as amended: search_and_pull_sensors examines the time range after the
\* login and before any search: when it rejects the range, the envelope is
\* success:false, no search and no pull has been made, and the one remote call
\* made is the login, which succeeded; and a bound that resolves to no instant is
\* always rejected at that point, with error "Missing datetime values".
C12_DatesAfterLogin ==
    (fn = "search_and_pull_sensors" /\ Ended) =>
        /\ (result.kind = "return" /\ "error" \in DOMAIN result.env
              /\ result.env.error \in DateErrors) =>
              /\ result.env.success = FALSE
              /\ SearchCalls = <<>>
              /\ PullCalls = <<>>
              /\ Len(calls) = 1
              /\ calls[1].call = "login"
              /\ calls[1].outcome = "user"
        /\ (calls # <<>> /\ calls[1].outcome = "user"
              /\ (start_dt.kind = "None" \/ end_dt.kind = "None")) =>
              /\ result.kind = "return"
              /\ result.env.error = "Missing datetime values"
              /\ Len(calls) = 1

\* C12's case: the end bound is not a date, and the operation has returned.
C12_Witness ==
    /\ fn = "search_and_pull_sensors"
    /\ pc = "returned"
    /\ time_args.start_datetime.text = "2025-09-01"
    /\ time_args.end_datetime.text = "not a date"
    /\ Len(calls) = 1

\* C12 as stated: when a bound does not resolve, no remote call of any kind has
\* been made.
C12_Original ==
    (fn = "search_and_pull_sensors" /\ Ended /\ result.kind = "return"
        /\ "error" \in DOMAIN result.env /\ result.env.error \in DateErrors) =>
        /\ result.env.success = FALSE
        /\ calls = <<>>

(* -------------------------------- C13 ----------------------------------- *)

\* The argument is empty or null, or none of the four parsing steps accepts it.
NoStepParses(raw) ==
    \/ raw.falsy
    \/ /\ raw.flexible = "fail"
       /\ DOMAIN raw.layouts = {}
       /\ ~raw.serial
       /\ raw.dateutil = "fail"

\* C13: applied to an empty or null argument, or to one that none of the four
\* steps parses, the normalizer fails with a parse error (it does not return).
C13_ParseError ==
    (parsed # Pending /\ NoStepParses(dt_str)) => parsed.kind = "ParseError"

\* C13's case: the normalizer has returned None for a text no step parses.
C13_ReturnedNone ==
    /\ dt_str.text = "not a date"
    /\ parsed = [kind |-> "None", tz |-> "None", via |-> "none", value |-> 0]

(* -------------------------------- C14 ----------------------------------- *)

\* The Status values of the placeholder records.
PlaceholderStatuses == {"Not Found", "Search Error: <search error>"}

\* Every search found at most one signal.
SingleMatches == \A k \in DOMAIN SearchCalls : SearchCalls[k].outcome # "two"

\* C14 as amended: search_sensors_only, given credentials that log in and a
\* non-empty list of n names, returns a success:true envelope with sensor_count n
\* and, when no search has more than one match, n records in request order.  A
\* record of a name that was found has a non-null ID and no Status value (the
\* column is absent or holds NaN); the record of a name that was not found has ID
\* null and Status 'Not Found' or 'Search Error: ...'.  In every record the ID is
\* null if and only if the Status is one of these two.
C14_SearchRecords ==
    (fn = "search_sensors_only" /\ Ended /\ result.kind = "return"
        /\ "search_results" \in DOMAIN result.env) =>
        LET records == result.env.search_results.v
            made == SearchCalls
            n == Len(sensor_names.items)
        IN  /\ result.env.success = TRUE
            /\ result.env.sensor_count = n
            /\ n >= 1
            /\ Len(made) = n
            /\ \A i \in DOMAIN records :
                  /\ records[i].v.ID.v = "None" <=>
                        /\ "Status" \in DOMAIN records[i].v
                        /\ records[i].v.Status.v \in PlaceholderStatuses
                  /\ records[i].v.ID.v # "None" =>
                        \/ "Status" \notin DOMAIN records[i].v
                        \/ records[i].v.Status.v = "NaN"
            /\ SingleMatches =>
                  /\ Len(records) = n
                  /\ \A k \in 1..n :
                        /\ records[k].v.Original_Name.v = sensor_names.items[k]
                        /\ made[k].outcome = "empty" =>
                              /\ records[k].v.ID.v = "None"
                              /\ records[k].v.Status.v = "Not Found"
                        /\ made[k].outcome = "raise" =>
                              /\ records[k].v.ID.v = "None"
                              /\ records[k].v.Status.v = "Search Error: <search error>"
                        /\ made[k].outcome \in {"one", "oneTs", "other"} =>
                              records[k].v.ID.v \notin {"None", "NaN"}

\* C14's case: of two names the first was found and the second was not.
C14_Witness ==
    /\ fn = "search_sensors_only"
    /\ pc = "returned"
    /\ Len(SearchCalls) = 2
    /\ SearchCalls[1].outcome = "one"
    /\ SearchCalls[2].outcome = "empty"
    /\ result.env.success

\* C14 as stated: every found record has status Found, and the ID is null exactly
\* when the status is not Found.
C14_Original ==
    (fn = "search_sensors_only" /\ Ended /\ result.kind = "return"
        /\ "search_results" \in DOMAIN result.env) =>
        \A i \in DOMAIN result.env.search_results.v :
            LET record == result.env.search_results.v[i].v
            IN  record.ID.v # "None" <=>
                    ("Status" \in DOMAIN record /\ record.Status.v = "Found")

(* -------------------------------- C15 ----------------------------------- *)

\* C15: clean_for_json is total: whatever value it is applied to, it returns a
\* value and does not raise.
C15_Total == cleaned # Pending => cleaned.t # "raise"

\* C15's case: applied to a record holding a datetime.date, clean_for_json raised.
C15_Raised ==
    /\ obj = [t |-> "dict", v |-> [a |-> [t |-> "leaf", v |-> "datetime.date(2025, 9, 1)"]]]
    /\ cleaned = [t |-> "raise", v |-> "AttributeError"]

(* -------------------------------- C16 ----------------------------------- *)

\* The leaves the sanitizer passes through: text, numbers, booleans and None.
PassedThrough == {"text", "1.5", "7", "True", "None"}

\* y is x with every NaN (and NaT) leaf replaced by None, every pandas Timestamp
\* by some text, and the keys, lengths and order of x kept.
RECURSIVE NaNsNulled(_, _)
NaNsNulled(x, y) ==
    IF x.t = "leaf"
    THEN /\ y.t = "leaf"
         /\ x.v \in {"NaN", "NaT"} => y.v = "None"
         /\ x.v \in PassedThrough => y.v = x.v
         /\ y.v \notin {"NaN", "NaT"}
    ELSE /\ y.t = x.t
         /\ DOMAIN y.v = DOMAIN x.v
         /\ \A k \in DOMAIN x.v : NaNsNulled(x.v[k], y.v[k])

\* C16: applied to a value built from mappings, lists, text, numbers, booleans,
\* None, NaN and pandas Timestamps, clean_for_json returns the same structure (same
\* keys, same lengths, same order) in which every NaN leaf, NaT included, is None
\* and every text, number, boolean and None is as it was; and whenever it returns,
\* for any input, its result has this relation to the input.
C16_NaNToNull ==
    cleaned # Pending =>
        /\ PyLeaves(obj) \cap
              {"datetime.datetime(2025, 9, 1, 0, 0)", "datetime.date(2025, 9, 1)"} = {}
              => cleaned.t # "raise"
        /\ cleaned.t # "raise" => NaNsNulled(obj, cleaned)

\* C16's case: a list holding a record with a NaN and a text has been cleaned.
C16_Witness ==
    /\ obj = [t |-> "list",
              v |-> <<[t |-> "dict", v |-> [a |-> [t |-> "leaf", v |-> "NaN"]]],
                      [t |-> "leaf", v |-> "text"]>>]
    /\ cleaned = [t |-> "list",
                  v |-> <<[t |-> "dict", v |-> [a |-> [t |-> "leaf", v |-> "None"]]],
                          [t |-> "leaf", v |-> "text"]>>]

(* -------------------------------- C17 ----------------------------------- *)

\* C17: clean_for_json is idempotent: for every input, clean_for_json(x) is a
\* value, and applying clean_for_json to it gives it back.
C17_Idempotent ==
    /\ cleaned # Pending => cleaned.t # "raise"
    /\ recleaned # Pending => recleaned = cleaned

\* C17's case: clean_for_json(x) raised for a list holding a datetime.datetime, so
\* neither side of the equation has a value.
C17_NoValue ==
    /\ obj = [t |-> "list", v |-> <<[t |-> "leaf", v |-> "text"],
                                    [t |-> "leaf",
                                     v |-> "datetime.datetime(2025, 9, 1, 0, 0)"]>>]
    /\ cleaned = [t |-> "raise", v |-> "AttributeError"]
    /\ recleaned = [t |-> "pending"]

(* -------------------------------- C18 ----------------------------------- *)

\* C18: the normalizer returns the result of the first step that succeeds, in the
\* order free-form parse, explicit layouts in list order, serial number (days
\* after 1899-12-30, which is day -25569 of the Unix era), permissive parse; a step
\* decides only when every earlier step failed.  The text "45292" is read as a
\* serial number, after the calendar readings failed, and is day -25569 + 45292.
C18_FallbackChain ==
    (parsed # Pending /\ ~dt_str.falsy) =>
        /\ dt_str.flexible # "fail" =>
              /\ parsed.via = "flexible"
              /\ parsed.kind = "Timestamp"
              /\ parsed.value = dt_str.calendar
        /\ (dt_str.flexible = "fail" /\ DOMAIN dt_str.layouts # {}) =>
              /\ parsed.via = "layout"
              /\ parsed.kind = "Timestamp"
              /\ \E k \in DOMAIN dt_str.layouts :
                    /\ \A j \in DOMAIN dt_str.layouts : k <= j
                    /\ parsed.value = dt_str.layouts[k]
        /\ (dt_str.flexible = "fail" /\ DOMAIN dt_str.layouts = {} /\ dt_str.serial) =>
              /\ parsed.via = "serial"
              /\ parsed.kind = "Timestamp"
              /\ parsed.value = dt_str.number - 25569
        /\ (dt_str.flexible = "fail" /\ DOMAIN dt_str.layouts = {} /\ ~dt_str.serial
              /\ dt_str.dateutil # "fail") =>
              /\ parsed.via = "dateutil"
              /\ parsed.kind = "datetime"
              /\ parsed.value = dt_str.calendar
        /\ parsed.via \in {"flexible", "layout", "serial", "dateutil", "none"}
        /\ dt_str.text = "45292" =>
              /\ parsed.via = "serial"
              /\ parsed.value = 19723

\* C18's case: the text "45292" has been normalized, by the serial-number step.
C18_Witness ==
    /\ dt_str.text = "45292"
    /\ parsed # Pending
    /\ parsed.via = "serial"

(* -------------------------------- C19 ----------------------------------- *)

\* C19: whenever both bounds parse, the time range is accepted (the operation does
\* not end with "Datetime parsing failed"), and the start and the end handed to
\* the pull call both carry a timezone.
C19_BothQualified ==
    fn = "search_and_pull_sensors" =>
        /\ (Ended /\ start_dt.kind # "None" /\ end_dt.kind # "None") =>
              ~(/\ result.kind = "return"
                /\ "error" \in DOMAIN result.env
                /\ result.env.error = "Datetime parsing failed")
        /\ \A i \in DOMAIN PullCalls :
              /\ PullCalls[i].start.tz # "None"
              /\ PullCalls[i].end.tz # "None"

\* C19's case: with no zone supplied, a start that carries an offset and an end
\* that carries none, the pull call has been made with the end still naive.
C19_NaiveEnd ==
    /\ fn = "search_and_pull_sensors"
    /\ time_args.timezone = "None"
    /\ PullCalls # <<>>
    /\ PullCalls[1].start.tz = "+05:00"
    /\ PullCalls[1].end.tz = "None"

(* -------------------------------- C20 ----------------------------------- *)

\* The records handed to the pull call: no two have the same Original_Name, none
\* has a null ID, and each is the first record in combined order that was found
\* for its requested name.
Deduplicated(items) ==
    /\ \A i, j \in DOMAIN items :
          items[i].Original_Name = items[j].Original_Name => i = j
    /\ \A i \in DOMAIN items : items[i].ID \notin {"None", "NaN"}
    /\ \A k \in DOMAIN combined_results :
          combined_results[k].ID \notin {"None", "NaN"} =>
              \E i \in DOMAIN items :
                  /\ items[i].Original_Name = combined_results[k].Original_Name
                  /\ \E f \in DOMAIN combined_results :
                        /\ items[i] = combined_results[f]
                        /\ f <= k
                        /\ \A e \in 1..(f - 1) :
                              \/ combined_results[e].ID \in {"None", "NaN"}
                              \/ combined_results[e].Original_Name
                                    # items[i].Original_Name

\* C20: the sensors handed to the pull call are deduplicated by Original_Name,
\* keeping the first found record of each requested name, and hence no two of them
\* have the same column header (the pull is made with header='Name').
C20_NoHeaderCollision ==
    \A p \in DOMAIN PullCalls :
        /\ Deduplicated(PullCalls[p].items)
        /\ \A i, j \in DOMAIN PullCalls[p].items :
              PullCalls[p].items[i].Name = PullCalls[p].items[j].Name => i = j

\* C20's case: two requested names each matched a signal named "S", and both
\* records were handed to the pull call.
C20_Collision ==
    /\ PullCalls # <<>>
    /\ Len(PullCalls[1].items) = 2
    /\ PullCalls[1].items[1].Name = "S"
    /\ PullCalls[1].items[2].Name = "S"
    /\ PullCalls[1].items[1].Original_Name # PullCalls[1].items[2].Original_Name

(* ------------------------------ C21 ------------------------------------- *)

\* The step makes a login call.
LoginStep ==
    /\ calls' # calls
    /\ calls' # <<>>
    /\ IsLogin(calls'[Len(calls')])

\* The step makes a login call that ends with an identity.
SuccessfulLoginStep == LoginStep /\ calls'[Len(calls')].outcome = "user"

\* C21 (as the code has it): auth_state changes only in a step whose login ends
\* with an identity; a login that raises or yields no identity leaves every field
\* of auth_state as it was.  Every login attempt, whatever its end, has pointed the
\* client's options at the server it was given (compatibility 66), and only a
\* login attempt changes the client's identity or options: check_auth_status, the
\* search loop, date parsing, the pull and sanitization change no part of the
\* session.
C21_FailedLoginKeepsAuthState ==
    [][/\ auth_state' # auth_state => SuccessfulLoginStep
       /\ session' # session => LoginStep
       /\ LoginStep =>
             /\ spy_options'.server = calls'[Len(calls')].url
             /\ spy_options'.compatibility = 66
       /\ (LoginStep /\ ~SuccessfulLoginStep) =>
             /\ auth_state'.is_authenticated = auth_state.is_authenticated
             /\ auth_state'.url = auth_state.url
             /\ auth_state'.access_key = auth_state.access_key
             /\ auth_state'.password = auth_state.password
             /\ auth_state'.auth_provider = auth_state.auth_provider
             /\ auth_state'.ignore_ssl_errors = auth_state.ignore_ssl_errors]_vars

\* C21, the case reached: after a login to one server succeeded, a login to another
\* has failed; auth_state still holds the first login, the client's options point
\* at the second server.
C21_Witness ==
    /\ fn = "authenticate_seeq"
    /\ pc = "returned"
    /\ LoginCalls # <<>>
    /\ LoginCalls[1].outcome \in {"raise", "raise_logout", "nouser"}
    /\ LoginCalls[1].url = "https://b"
    /\ auth_state.is_authenticated
    /\ auth_state.url = "https://a"
    /\ spy_options.server = "https://b"

\* C21 as stated: only a successful authentication changes process state, so no
\* other step changes auth_state, the client's identity or the client's options.
C21_Original == [][session' # session => SuccessfulLoginStep]_vars

(* ------------------------------ C22 ------------------------------------- *)

\* Values that are not strictly JSON-representable: NaN, NaT and date objects.
NotJsonValues == {NaN, NaT} \cup TimestampObjects \cup DatetimeObjects

\* search_and_pull_sensors has ended with its success envelope.
PullSucceeded ==
    /\ Ended
    /\ fn = "search_and_pull_sensors"
    /\ result.kind = "return"
    /\ result.env.success
    /\ "data" \in DOMAIN result.env

\* C22: the 'data' and 'search_results' fields of the success envelope of
\* search_and_pull_sensors hold no NaN and no timestamp object: every timestamp
\* of the pulled rows has become the text 'YYYY-MM-DD HH:MM:SS' (in UTC), every
\* gap and every unfilled column of the search records has become null.
C22_SuccessEnvelopeSanitized ==
    PullSucceeded =>
        /\ PyLeaves(result.env.data) \cap NotJsonValues = {}
        /\ PyLeaves(result.env.search_results) \cap NotJsonValues = {}
        /\ "search_results" \in DOMAIN result.env
        /\ \A i \in DOMAIN result.env.data.v :
              result.env.data.v[i].v.index = Leaf("2025-08-31 19:00:00")
        /\ Len(result.env.search_results.v) = Len(combined_results)
        /\ \A i \in DOMAIN combined_results : \A c \in DOMAIN combined_results[i] :
              LET before == combined_results[i][c]
                  after == result.env.search_results.v[i].v[c].v
              IN  /\ before = NaN => after = None
                  /\ before = TsNaive => after = "2025-09-01 00:00:00"
                  /\ before \notin NotJsonValues => after = before

\* C22, the case reached: the pull returned rows with gaps, and the search records
\* held both an unfilled column (NaN) and a Timestamp before they were cleaned.
C22_Witness ==
    /\ PullSucceeded
    /\ PullCalls # <<>>
    /\ PullCalls[1].outcome = "gaps"
    /\ NaN \in PyLeaves(ToDictRecords(combined_results))
    /\ TsNaive \in PyLeaves(ToDictRecords(combined_results))
    /\ None \in PyLeaves(result.env.data)

(* ------------------------------ C23 ------------------------------------- *)

\* An operation has returned an envelope that carries search records.
CarriesSearchRecords ==
    /\ Ended
    /\ result.kind = "return"
    /\ "search_results" \in DOMAIN result.env

\* C23: every envelope that carries search records (the success envelopes of both
\* search operations, the 'no valid sensors' and the 'pull failed' envelopes)
\* holds only strictly JSON-representable values in them: no NaN and no timestamp
\* object.
C23_RecordsJsonRepresentable ==
    CarriesSearchRecords =>
        PyLeaves(result.env.search_results) \cap NotJsonValues = {}

\* C23, the failing case: search_sensors_only found one name and not the other; the
\* record of the name found has no Status, pd.concat fills it with NaN, and the
\* success envelope is printed with the token NaN in it.
C23_NaNInSearchOnly ==
    /\ pc = "exited"
    /\ fn = "search_sensors_only"
    /\ result.kind = "return"
    /\ result.env.success
    /\ "search_results" \in DOMAIN result.env
    /\ NaN \in PyLeaves(result.env.search_results)
    /\ stdout # <<>>
    /\ ~stdout[Len(stdout)].valid_json

(* ------------------------------ C24 ------------------------------------- *)

\* The calls an invocation of search_and_pull_sensors has made so far are in the
\* order login, searches, pull: one login first; searches only after that login
\* ended with an identity, one per requested name and in the order of the request;
\* one pull, last, only after a search was made for every name, with both bounds
\* resolved and at least one record that has an ID.
CallsInOrder ==
    fn = "search_and_pull_sensors" /\ pc # "idle" =>
        /\ \A k \in DOMAIN calls :
              /\ calls[k].call = "login" <=> k = 1
              /\ calls[k].call = "pull" => k = Len(calls)
              /\ calls[k].call = "search" =>
                    /\ calls[1].outcome = "user"
                    /\ calls[k].Name = sensor_names.items[k - 1]
                    /\ \A j \in 2..k : calls[j].call = "search"
        /\ PullCalls # <<>> =>
              /\ Len(PullCalls) = 1
              /\ calls[1].outcome = "user"
              /\ Len(SearchCalls) = Len(sensor_names.items)
              /\ PullCalls[1].start.kind = "Timestamp"
              /\ PullCalls[1].end.kind = "Timestamp"
              /\ \E i \in DOMAIN combined_results :
                    combined_results[i].ID \notin {None, NaN}
              /\ PullCalls[1].items # <<>>
              /\ \A i \in DOMAIN PullCalls[1].items :
                    PullCalls[1].items[i].ID \notin {None, NaN}

\* Once an operation has decided its result, it makes no further call.
NoCallAfterResult ==
    result.kind # "none" => (calls' = calls \/ calls' = <<>>)

\* C24: within one invocation of search_and_pull_sensors the remote calls are
\* strictly ordered (login, then the searches in input order, then the pull), and
\* no call is made after the envelope to return has been decided.
C24_CallsOrdered == [](CallsInOrder) /\ [][NoCallAfterResult]_vars

\* C24, the case reached: B and A were requested in this order, the login
\* succeeded, B was searched before A, and the pull came last.
C24_Witness ==
    /\ fn = "search_and_pull_sensors"
    /\ pc = "returned"
    /\ sensor_names.items = <<"B", "A">>
    /\ Len(calls) = 4
    /\ calls[1].call = "login"
    /\ calls[2].call = "search" /\ calls[2].Name = "B" /\ calls[2].outcome = "empty"
    /\ calls[3].call = "search" /\ calls[3].Name = "A"
    /\ calls[4].call = "pull"

(* ------------------------------ C25 ------------------------------------- *)

\* The boolean an ignore_ssl_errors argument stands for: a bool is itself, a string
\* is true when it reads true, 1, yes or on in any case, anything else is false.
FlagOf(i) ==
    \/ i.type = "bool" /\ i.val = "True"
    \/ i.type = "str" /\ i.val \in {"true", "TRUE", "True", "1", "yes", "on"}

\* auth_state is the initial one or that of an authenticated process.
InitialOrAuthenticated ==
    \/ auth_state =
          [is_authenticated |-> FALSE, url |-> "None", access_key |-> "None",
           password |-> "None", auth_provider |-> "Seeq", ignore_ssl_errors |-> FALSE]
    \/ /\ auth_state.is_authenticated
       /\ auth_state.ignore_ssl_errors \in BOOLEAN

\* check_auth_status reports an authenticated process only when auth_state says so
\* and the client has an identity.
StatusReportSound ==
    (/\ Ended
     /\ fn = "check_auth_status"
     /\ result.kind = "return"
     /\ result.env.isAuthenticated) =>
        /\ auth_state.is_authenticated
        /\ spy_user # "None"
        /\ result.env.user = spy_user

\* A step keeps auth_state, unless its login ends with an identity: then auth_state
\* holds the arguments of that login, ignore_ssl_errors as the boolean it stands
\* for.  is_authenticated never goes back to false.
AuthStateStep ==
    /\ auth_state.is_authenticated => auth_state'.is_authenticated
    /\ ~SuccessfulLoginStep => auth_state' = auth_state
    /\ SuccessfulLoginStep =>
          /\ auth_state'.is_authenticated
          /\ auth_state'.url = cred'.url
          /\ auth_state'.access_key = cred'.access_key
          /\ auth_state'.password = cred'.password
          /\ auth_state'.auth_provider = cred'.auth_provider
          /\ auth_state'.ignore_ssl_errors = FlagOf(cred'.ignore_ssl_errors)

\* C25 (as the code has it): after any sequence of calls auth_state is the initial
\* state or has is_authenticated true with url, access_key, password and
\* auth_provider equal to the arguments of the most recent successful login and
\* ignore_ssl_errors equal to the boolean its argument was converted to;
\* is_authenticated never returns from true to false; check_auth_status reports
\* isAuthenticated true only if auth_state.is_authenticated is true and the client
\* has an identity.
C25_AuthStateInvariant ==
    /\ [](InitialOrAuthenticated /\ StatusReportSound)
    /\ [][AuthStateStep]_vars

\* C25, the case reached: in a process already authenticated to one server a login
\* to another succeeds with ignore_ssl_errors given as the text 'no'; auth_state
\* holds the second login, the flag as False.
C25_Witness ==
    /\ fn = "authenticate_seeq"
    /\ pc = "returned"
    /\ entry_authenticated
    /\ LoginCalls # <<>>
    /\ LoginCalls[1].outcome = "user"
    /\ cred.ignore_ssl_errors = [type |-> "str", val |-> "no"]
    /\ auth_state =
          [is_authenticated |-> TRUE, url |-> "https://b", access_key |-> "key2",
           password |-> "pw2", auth_provider |-> "Seeq", ignore_ssl_errors |-> FALSE]

\* C25 as stated: after a successful login ignore_ssl_errors in auth_state is the
\* argument the login was given.
C25_Original ==
    [][SuccessfulLoginStep =>
          /\ cred'.ignore_ssl_errors.type = "bool"
          /\ auth_state'.ignore_ssl_errors = (cred'.ignore_ssl_errors.val = "True")]_vars

====
